---- MODULE Spec2Model ----
(***************************************************************************)
(* Model of the audio capture / voice-activity gate of the useDeepgram     *)
(* hook (src/src/components/TranscriptDisplay.tsx, lines 68-284).          *)
(*                                                                         *)
(* Every call of connect() is one "attempt" 1..MaxConnects.  An attempt    *)
(* owns the objects its closure created: the MediaStream returned by       *)
(* getUserMedia, the WebSocket, and the audio graph (AudioContext, source  *)
(* node, ScriptProcessor) built by startRecording.  The hook's refs hold   *)
(* the number of the attempt whose object they point to, 0 for null.       *)
(*                                                                         *)
(* Audio samples are Float32 values; the model writes a sample x as the    *)
(* integer x * Unit, so that the threshold and the PCM scaling are exact   *)
(* integer arithmetic.                                                     *)
(***************************************************************************)
EXTENDS Integers, Sequences, FiniteSets, TLC

VARIABLES
    hasKey,             \* import.meta.env.VITE_DEEPGRAM_API_KEY is set
    nCalls,             \* number of connect() calls made so far
    pc,                 \* pc[i]: where attempt i of connect() stands
    closureSpeaking,    \* closureSpeaking[i]: isSpeaking as captured by the
                        \*   startRecording closure that attempt i uses
    stream,             \* stream[i]: the MediaStream of attempt i
    ws,                 \* ws[i]: readyState of the WebSocket of attempt i
    wsEstablished,      \* wsEstablished[i]: that socket has fired "open"
    graph,              \* graph[i]: the audio graph built for attempt i
    toasts,             \* toasts[i]: titles of the toasts attempt i raised
    wsRef, streamRef, audioContextRef, processorRef, sourceRef,
    silenceTimeoutRef,  \* 0 = null, 1 = handle of the timer set at line 225
    timerPending,       \* the browser still holds that timer
    speechSinceTimer,   \* a speech frame was processed since the timer was set
    isConnected, isRecording, isSpeaking,
    ev,                 \* what the last step did (operation, attempt, the
                        \*   frame given to onaudioprocess, the buffers sent)
    received,           \* the messages the sockets delivered, in arrival order
    calls,              \* the entries passed to onTranscript, in call order
    transcripts, interimTranscript,
    sentimentScore, sentimentLabel, mood, keywords,
    isAnalyzing,
    nRequests,          \* number of calls of analyzeSentiment so far
    inflight,           \* the calls of analyzeSentiment that await invoke
    settled,            \* the calls that have returned, in the order they did
    analysisToasts,     \* number of "Analysis Error" toasts raised
    stopped,            \* disconnect() has run and connect() was not called since
    reqBody,            \* analyze-sentiment: the body of the request
    apiKeySet,          \* analyze-sentiment: LOVABLE_API_KEY is configured
    srvPc,              \* analyze-sentiment: position of the handler
    fetches,            \* analyze-sentiment: requests made to the gateway
    gateway,            \* analyze-sentiment: what the fetch came to, if made
    response,           \* analyze-sentiment: the Response returned, if any
    clientReturn,       \* what analyzeSentiment returned for reqBody, if it did
    sentimentRef,       \* AuraCanvas: sentimentRef.current
    lastLabel, lastKeywordCount,
    target,             \* AuraCanvas: the target values of the sketch
    frameScore          \* the score in sentimentRef at the last frame drawn

vars == <<hasKey, nCalls, pc, closureSpeaking, stream, ws, wsEstablished,
          graph, toasts, wsRef, streamRef, audioContextRef, processorRef,
          sourceRef, silenceTimeoutRef, timerPending, speechSinceTimer,
          isConnected, isRecording, isSpeaking, ev, received, calls,
          transcripts, interimTranscript, sentimentScore, sentimentLabel,
          mood, keywords, isAnalyzing, nRequests, inflight, settled,
          analysisToasts, stopped, reqBody, apiKeySet, srvPc, fetches, gateway,
          response, clientReturn, sentimentRef, lastLabel, lastKeywordCount,
          target, frameScore>>

\* The state of the analyze-sentiment function and of the call that reaches it.
serverVars ==
    <<reqBody, apiKeySet, srvPc, fetches, gateway, response, clientReturn>>

\* The state of AuraCanvas.
auraVars == <<sentimentRef, lastLabel, lastKeywordCount, target, frameScore>>

\* The state of the page (Index) and of useSentimentAnalysis, with the
\* record of the transcript traffic.
routerVars == <<received, calls, transcripts, interimTranscript,
                sentimentScore, sentimentLabel, mood, keywords, isAnalyzing,
                nRequests, inflight, settled, analysisToasts>>

\* The state of useDeepgram, but for ev.
hookVars == <<hasKey, nCalls, pc, closureSpeaking, stream, ws, wsEstablished,
              graph, toasts, wsRef, streamRef, audioContextRef, processorRef,
              sourceRef, silenceTimeoutRef, timerPending, speechSinceTimer,
              isConnected, isRecording, isSpeaking, stopped>>

----------------------------------------------------------------------------
(* Bounds *)

MaxConnects == 2

FrameLen == 2

Attempts == 1..MaxConnects

----------------------------------------------------------------------------
(* Audio samples and the PCM conversion *)

Unit == 1000

SPEECH_THRESHOLD == Unit \div 100

INT16_NEG_SCALE == 32768

INT16_POS_SCALE == 32767

\* Sample values the microphone delivers: silence, just below and exactly at
\* the threshold amplitude, in-range speech of both signs, and values outside
\* [-1, 1] of both signs.
Samples == {-(3 * Unit) \div 2, -(Unit \div 2), 0, SPEECH_THRESHOLD,
            Unit \div 2, (3 * Unit) \div 2}

Frames == [1..FrameLen -> Samples]

\* A frame of one amplitude throughout, and a frame that is silent but for its
\* first sample.
Steady(x) == [k \in 1..FrameLen |-> x]

Spike(x) == [k \in 1..FrameLen |-> IF k = 1 THEN x ELSE 0]

SilentFrame == Steady(0)

\* The frames fed to the sessions of the full model: silence, a steady tone
\* exactly at the threshold, a spike just above the threshold amplitude in an
\* otherwise silent frame, a loud spike and steady loud speech.
GateFrames == {SilentFrame, Steady(SPEECH_THRESHOLD), Spike(SPEECH_THRESHOLD + 1),
               Spike((3 * Unit) \div 2), Steady((3 * Unit) \div 2)}

RECURSIVE SumSquares(_)
SumSquares(f) ==
    IF f = <<>> THEN 0 ELSE Head(f) * Head(f) + SumSquares(Tail(f))

\* A gate that also lets through a frame whose rms equals the threshold.
IsSpeechDetectedAtThreshold(f) ==
    SumSquares(f) >= SPEECH_THRESHOLD * SPEECH_THRESHOLD * Len(f)

\* rms > SPEECH_THRESHOLD, with rms = sqrt(sum / length): both sides are
\* non-negative, so the comparison is the comparison of the squares.
IsSpeechDetected(f) ==
    SumSquares(f) > SPEECH_THRESHOLD * SPEECH_THRESHOLD * Len(f)

Min(a, b) == IF a < b THEN a ELSE b

Max(a, b) == IF a > b THEN a ELSE b

\* A conversion that scales the sample as it comes.
ClampNone(x) == x

\* Math.max(-1, Math.min(1, inputData[i]))
Clamp(x) == Max(-Unit, Min(Unit, x))

\* The product s * 0x8000 or s * 0x7fff, in 1/Unit.
Scaled(x) ==
    LET s == Clamp(x) IN IF s < 0 THEN s * INT16_NEG_SCALE ELSE s * INT16_POS_SCALE

\* Truncation of n / Unit towards zero.
Trunc(n) == IF n >= 0 THEN n \div Unit ELSE -((-n) \div Unit)

\* Storing a number in an Int16Array element: truncate, then wrap modulo 2^16.
ToInt16(n) == ((Trunc(n) + 32768) % 65536) - 32768

PcmSample(x) == ToInt16(Scaled(x))

PcmData(f) == [k \in 1..Len(f) |-> PcmSample(f[k])]

\* pcmData.buffer: the bytes of the Int16Array, two per element, low byte first.
RECURSIVE Buffer(_)
Buffer(p) ==
    IF p = <<>> THEN <<>>
    ELSE LET u == Head(p) % 65536
         IN  <<u % 256, u \div 256>> \o Buffer(Tail(p))

----------------------------------------------------------------------------
(* Text, messages and sentiment results *)

\* A string is the sequence of its characters; "" is <<>>.
MaxMessages == 2

ScoreUnit == 100

\* 0.5, in 1/ScoreUnit
NEUTRAL_SCORE == ScoreUnit \div 2

\* w.length > 4
LONG_WORD == 4

\* slice(0, 3)
MAX_FALLBACK_KEYWORDS == 3

wHappy == <<"h", "a", "p", "p", "y">>

wToday == <<"t", "o", "d", "a", "y">>

wGreat == <<"g", "r", "e", "a", "t">>

wRainy == <<"r", "a", "i", "n", "y">>

wGood == <<"g", "o", "o", "d">>

wOk == <<"o", "k">>

\* "happy happy today great": more than three long words, one of them twice
TextHappy == wHappy \o <<" ">> \o wHappy \o <<" ">> \o wToday \o <<" ">> \o wGreat

\* " good ok": padded, and no word longer than LONG_WORD characters
TextShort == <<" ">> \o wGood \o <<" ">> \o wOk

\* "  ": only white space
TextBlank == <<" ", " ">>

TextEmpty == <<>>

\* The parsed JSON of a message: alt says whether channel.alternatives[0]
\* exists, transcript is its transcript, is_final the field of that name
\* ("true", "false", or "absent" when the message has none).
Message(alt, t, f) == [alt |-> alt, transcript |-> t, is_final |-> f]

Messages ==
    { Message(FALSE, TextEmpty, "absent"),
      Message(TRUE, TextEmpty, "true"),
      Message(TRUE, TextBlank, "false"),
      Message(TRUE, TextHappy, "true"),
      Message(TRUE, TextHappy, "false"),
      Message(TRUE, TextShort, "true"),
      Message(TRUE, TextShort, "absent") }

RECURSIVE TrimStart(_)
TrimStart(s) == IF s # <<>> /\ Head(s) = " " THEN TrimStart(Tail(s)) ELSE s

RECURSIVE TrimEnd(_)
TrimEnd(s) ==
    IF s # <<>> /\ s[Len(s)] = " " THEN TrimEnd(SubSeq(s, 1, Len(s) - 1)) ELSE s

\* transcript.trim()
Trim(s) == TrimEnd(TrimStart(s))

\* text.split(" "): the pieces between the spaces, empty pieces included
RECURSIVE Split(_)
Split(s) ==
    IF \A k \in 1..Len(s) : s[k] # " " THEN <<s>>
    ELSE LET k == CHOOSE k \in 1..Len(s) :
                      s[k] = " " /\ \A j \in 1..(k - 1) : s[j] # " "
         IN  <<SubSeq(s, 1, k - 1)>> \o Split(SubSeq(s, k + 1, Len(s)))

IsLongWord(w) == Len(w) > LONG_WORD

\* The long words of the text, all of them.
FallbackKeywordsUnsliced(text) == SelectSeq(Split(text), IsLongWord)

\* text.split(" ").filter(w => w.length > 4).slice(0, 3)
FallbackKeywords(text) ==
    LET long == SelectSeq(Split(text), IsLongWord)
    IN  SubSeq(long, 1, Min(MAX_FALLBACK_KEYWORDS, Len(long)))

SentimentData(score, label, m, kws) ==
    [sentiment_score |-> score, sentiment_label |-> label, mood |-> m,
     keywords |-> kws]

\* The object returned from the catch block of analyzeSentiment.
FallbackResult(text) ==
    SentimentData(NEUTRAL_SCORE, "neutral", "undetermined", FallbackKeywords(text))

ResultHappy ==
    SentimentData((92 * ScoreUnit) \div 100, "positive", "happy",
                  <<wHappy, wToday, wGreat>>)

ResultSad ==
    SentimentData((10 * ScoreUnit) \div 100, "negative", "sad", <<wToday, wRainy>>)

\* What invoke can settle with: data of a result, no data, or an error.
\* A value that may be null is a sequence of length at most one.
Outcomes ==
    { [error |-> FALSE, data |-> <<ResultHappy>>],
      [error |-> FALSE, data |-> <<ResultSad>>],
      [error |-> FALSE, data |-> <<>>],
      [error |-> TRUE, data |-> <<>>] }

RouterInit ==
    /\ received = <<>>
    /\ calls = <<>>
    /\ transcripts = <<>>
    /\ interimTranscript = TextEmpty
    /\ sentimentScore = NEUTRAL_SCORE
    /\ sentimentLabel = "neutral"
    /\ mood = "neutral"
    /\ keywords = <<>>
    /\ isAnalyzing = FALSE
    /\ nRequests = 0
    /\ inflight = {}
    /\ settled = <<>>
    /\ analysisToasts = 0

----------------------------------------------------------------------------
(* The analyze-sentiment function: its inputs and its fallback *)

MaxWords == 4

\* The pieces a text is made of: nothing (two spaces in a row, or a space at
\* an end), a word of LONG_WORD characters, and two longer words.
Vocabulary == {TextEmpty, wGood, wHappy, wToday}

\* words.join(" ")
RECURSIVE Join(_)
Join(words) ==
    IF words = <<>> THEN TextEmpty
    ELSE IF Len(words) = 1 THEN words[1]
    ELSE words[1] \o <<" ">> \o Join(Tail(words))

\* Every text of at most MaxWords pieces.
Texts == {Join(pieces) : pieces \in UNION {[1..n -> Vocabulary] : n \in 0..MaxWords}}

\* What await req.json() and body.text give: no parsable body, no text
\* field, a text that is not a string, or a string.
Body(kind, t) == [kind |-> kind, s |-> t]

Bodies ==
    {Body("unparsable", TextEmpty), Body("missing", TextEmpty),
     Body("number", TextEmpty)} \cup {Body("string", t) : t \in Texts}

wAnalysis == <<"a", "n", "a", "l", "y", "s", "i", "s">>

wError == <<"e", "r", "r", "o", "r">>

\* text && typeof text === "string", for the variable text of the handler
\* ("" when req.json() threw, body.text otherwise)
IsUsableText(b) == b.kind = "string" /\ b.s # TextEmpty

\* let fallbackKeywords = ["analysis", "error"]; if (...) { ... }
ServerFallbackKeywords(b) ==
    IF IsUsableText(b) /\ Len(FallbackKeywords(b.s)) > 0
    THEN FallbackKeywords(b.s)
    ELSE <<wAnalysis, wError>>

\* new Response(JSON.stringify(body), { status }); hasError says whether the
\* body has an error field.
Response(status, hasError, body) ==
    [status |-> status, hasError |-> hasError, body |-> body]

\* What the fetch of the gateway can come to.
Upstreams ==
    { [kind |-> "result", status |-> 200, result |-> ResultHappy],
      [kind |-> "result", status |-> 200, result |-> ResultSad],
      [kind |-> "noToolCall", status |-> 200, result |-> ResultSad],
      [kind |-> "badArguments", status |-> 200, result |-> ResultSad],
      [kind |-> "notOk", status |-> 429, result |-> ResultSad],
      [kind |-> "notOk", status |-> 402, result |-> ResultSad],
      [kind |-> "notOk", status |-> 500, result |-> ResultSad],
      [kind |-> "rejected", status |-> 0, result |-> ResultSad] }

\* No request has reached the function.
ServerIdle ==
    /\ reqBody = Body("missing", TextEmpty)
    /\ apiKeySet = FALSE
    /\ srvPc = "idle"
    /\ fetches = 0
    /\ gateway = <<>>
    /\ response = <<>>
    /\ clientReturn = <<>>

----------------------------------------------------------------------------
(* AuraCanvas: the targets of the sketch *)

\* updateVisualization(): energy and stroke weight in 1/100, flow speed in
\* 1/10000.
UpdateVisualization(label, count) ==
    LET base ==
            IF label = "positive"
            THEN [hue |-> 50, energy |-> 180, flowSpeed |-> 50, strokeWeight |-> 350]
            ELSE IF label = "negative"
            THEN [hue |-> 240, energy |-> 25, flowSpeed |-> 8, strokeWeight |-> 120]
            ELSE [hue |-> 200, energy |-> 70, flowSpeed |-> 20, strokeWeight |-> 200]
    IN  IF count > 0
        THEN [base EXCEPT !.energy = @ + count * 15,
                          !.strokeWeight = @ + count * 25]
        ELSE base

\* The props AuraCanvas is rendered with.
AuraProps ==
    [score |-> sentimentScore, label |-> sentimentLabel, keywords |-> keywords]

\* After the mount effect: the sketch exists and updateVisualization() has
\* run once.
AuraInit ==
    /\ sentimentRef = [score |-> NEUTRAL_SCORE, label |-> "neutral",
                       keywords |-> <<>>]
    /\ lastLabel = "neutral"
    /\ lastKeywordCount = 0
    /\ target = UpdateVisualization("neutral", 0)
    /\ frameScore = NEUTRAL_SCORE

----------------------------------------------------------------------------
(* State after the hook is mounted *)

NoEvent(op, i) == [op |-> op, a |-> i, frame |-> <<>>, sent |-> <<>>]

HookInit ==
    /\ hasKey \in BOOLEAN
    /\ nCalls = 0
    /\ pc = [i \in Attempts |-> "notCalled"]
    /\ closureSpeaking = [i \in Attempts |-> FALSE]
    /\ stream = [i \in Attempts |-> "none"]
    /\ ws = [i \in Attempts |-> "none"]
    /\ wsEstablished = [i \in Attempts |-> FALSE]
    /\ graph = [i \in Attempts |-> "none"]
    /\ toasts = [i \in Attempts |-> {}]
    /\ wsRef = 0
    /\ streamRef = 0
    /\ audioContextRef = 0
    /\ processorRef = 0
    /\ sourceRef = 0
    /\ silenceTimeoutRef = 0
    /\ timerPending = FALSE
    /\ speechSinceTimer = FALSE
    /\ isConnected = FALSE
    /\ isRecording = FALSE
    /\ isSpeaking = FALSE
    /\ ev = NoEvent("mount", 0)
    /\ stopped = FALSE

Init == HookInit /\ RouterInit /\ ServerIdle /\ AuraInit

----------------------------------------------------------------------------
(* disconnect() *)

\* wsRef.current.close(): a socket that is connecting or open starts closing,
\* a closing or closed one is left as it is.  w is the readyState of every
\* socket at the time of the call.
CloseSocket(w, r) ==
    IF r # 0 /\ w[r] \in {"CONNECTING", "OPEN"}
    THEN [w EXCEPT ![r] = "CLOSING"]
    ELSE w

\* processor.disconnect(), source.disconnect(), audioContext.close() on the
\* objects the three refs hold.
ReleaseGraph ==
    [j \in Attempts |->
        IF j \in {processorRef, sourceRef, audioContextRef} /\ graph[j] = "running"
        THEN "closed" ELSE graph[j]]

\* streamRef.current.getTracks().forEach(track => track.stop())
StopTracks ==
    [j \in Attempts |->
        IF j = streamRef /\ stream[j] = "live" THEN "stopped" ELSE stream[j]]

\* The body of disconnect(), run while the sockets' readyStates are w.
DisconnectBody(w) ==
    /\ silenceTimeoutRef' = 0
    /\ timerPending' = IF silenceTimeoutRef # 0 THEN FALSE ELSE timerPending
    /\ speechSinceTimer' = IF silenceTimeoutRef # 0 THEN FALSE ELSE speechSinceTimer
    /\ graph' = ReleaseGraph
    /\ processorRef' = 0
    /\ sourceRef' = 0
    /\ audioContextRef' = 0
    /\ stream' = StopTracks
    /\ streamRef' = 0
    /\ ws' = CloseSocket(w, wsRef)
    /\ wsRef' = 0
    /\ isConnected' = FALSE
    /\ isRecording' = FALSE
    /\ isSpeaking' = FALSE

Disconnect ==
    /\ DisconnectBody(ws)
    /\ ev' = NoEvent("disconnect", 0)
    /\ UNCHANGED <<hasKey, nCalls, pc, closureSpeaking, wsEstablished, toasts>>
    /\ UNCHANGED <<routerVars, serverVars, auraVars>>
    /\ stopped' = TRUE

----------------------------------------------------------------------------
(* connect() *)

\* A connect() that asks for the microphone before it looks for the key.
ConnectMicrophoneFirst ==
    /\ nCalls < MaxConnects
    /\ nCalls' = nCalls + 1
    /\ pc' = [pc EXCEPT ![nCalls + 1] = "awaitMic"]
    /\ closureSpeaking' = [closureSpeaking EXCEPT ![nCalls + 1] = isSpeaking]
    /\ ev' = NoEvent("connect", nCalls + 1)
    /\ stopped' = FALSE
    /\ UNCHANGED <<hasKey, stream, ws, wsEstablished, graph, toasts, wsRef,
                   streamRef, audioContextRef, processorRef, sourceRef,
                   silenceTimeoutRef, timerPending, speechSinceTimer,
                   isConnected, isRecording, isSpeaking>>
    /\ UNCHANGED <<routerVars, serverVars, auraVars>>

\* The call itself, up to the await of getUserMedia.  connect is memoised on
\* [onTranscript, toast]; onTranscript changes with every render of the page,
\* so the connect that runs, and the startRecording it closes over, are those
\* of the latest render and see that render's isSpeaking.
Connect ==
    /\ nCalls < MaxConnects
    /\ nCalls' = nCalls + 1
    /\ LET i == nCalls + 1 IN
        \/ /\ ~hasKey
           /\ pc' = [pc EXCEPT ![i] = "configError"]
           /\ toasts' = [toasts EXCEPT ![i] = {"Configuration Error", "Microphone Error"}]
           /\ UNCHANGED closureSpeaking
           /\ ev' = NoEvent("connectRejected", i)
        \/ /\ hasKey
           /\ pc' = [pc EXCEPT ![i] = "awaitMic"]
           /\ closureSpeaking' = [closureSpeaking EXCEPT ![i] = isSpeaking]
           /\ UNCHANGED toasts
           /\ ev' = NoEvent("connect", i)
    /\ UNCHANGED <<hasKey, stream, ws, wsEstablished, graph, wsRef, streamRef,
                   audioContextRef, processorRef, sourceRef, silenceTimeoutRef,
                   timerPending, speechSinceTimer, isConnected, isRecording,
                   isSpeaking>>
    /\ UNCHANGED <<routerVars, serverVars, auraVars>>
    /\ stopped' = FALSE

\* getUserMedia rejects (permission denied, no device): the catch block.
MicDenied(i) ==
    /\ pc[i] = "awaitMic"
    /\ pc' = [pc EXCEPT ![i] = "micError"]
    /\ toasts' = [toasts EXCEPT ![i] = @ \cup {"Microphone Error"}]
    /\ ev' = NoEvent("connectRejected", i)
    /\ UNCHANGED <<hasKey, nCalls, closureSpeaking, stream, ws, wsEstablished,
                   graph, wsRef, streamRef, audioContextRef, processorRef,
                   sourceRef, silenceTimeoutRef, timerPending, speechSinceTimer,
                   isConnected, isRecording, isSpeaking>>
    /\ UNCHANGED <<routerVars, serverVars, auraVars>>
    /\ UNCHANGED stopped

\* startRecording(stream, ws), called by ws.onopen.
StartRecording(i) ==
    /\ graph' = [graph EXCEPT ![i] = "running"]
    /\ audioContextRef' = i
    /\ sourceRef' = i
    /\ processorRef' = i
    /\ isRecording' = TRUE

\* A connect() that starts recording as soon as the socket object exists.
NewWebSocketStartsRecording(i) ==
    /\ ws' = [ws EXCEPT ![i] = "CONNECTING"]
    /\ wsRef' = i
    /\ pc' = [pc EXCEPT ![i] = "wired"]
    /\ ev' = NoEvent("connectResolved", i)
    /\ StartRecording(i)
    /\ UNCHANGED <<toasts, wsEstablished, isConnected>>

\* new WebSocket(...) succeeds: the handlers are installed, wsRef is set and
\* connect() resolves.
NewWebSocket(i) ==
    /\ ws' = [ws EXCEPT ![i] = "CONNECTING"]
    /\ wsRef' = i
    /\ pc' = [pc EXCEPT ![i] = "wired"]
    /\ ev' = NoEvent("connectResolved", i)
    /\ UNCHANGED <<toasts, wsEstablished, graph, audioContextRef, processorRef,
                   sourceRef, isConnected, isRecording>>

\* new WebSocket(...) throws (SyntaxError for a key that is no valid
\* subprotocol token, SecurityError): the catch block.
NewWebSocketThrows(i) ==
    /\ pc' = [pc EXCEPT ![i] = "socketError"]
    /\ toasts' = [toasts EXCEPT ![i] = @ \cup {"Microphone Error"}]
    /\ ev' = NoEvent("connectRejected", i)
    /\ UNCHANGED <<ws, wsRef, wsEstablished, graph, audioContextRef,
                   processorRef, sourceRef, isConnected, isRecording>>

\* getUserMedia resolves: the rest of connect() runs.
MicGranted(i) ==
    /\ pc[i] = "awaitMic"
    /\ stream' = [stream EXCEPT ![i] = "live"]
    /\ streamRef' = i
    /\ \/ NewWebSocket(i)
       \/ NewWebSocketThrows(i)
    /\ UNCHANGED <<hasKey, nCalls, closureSpeaking, silenceTimeoutRef,
                   timerPending, speechSinceTimer, isSpeaking>>
    /\ UNCHANGED <<routerVars, serverVars, auraVars>>
    /\ UNCHANGED stopped

----------------------------------------------------------------------------
(* Socket events *)

\* The socket of attempt i opens: ws.onopen.
WsOpen(i) ==
    /\ ws[i] = "CONNECTING"
    /\ ws' = [ws EXCEPT ![i] = "OPEN"]
    /\ wsEstablished' = [wsEstablished EXCEPT ![i] = TRUE]
    /\ isConnected' = TRUE
    /\ StartRecording(i)
    /\ ev' = NoEvent("open", i)
    /\ UNCHANGED <<hasKey, nCalls, pc, closureSpeaking, stream, toasts, wsRef,
                   streamRef, silenceTimeoutRef, timerPending, speechSinceTimer,
                   isSpeaking>>
    /\ UNCHANGED <<routerVars, serverVars, auraVars>>
    /\ UNCHANGED stopped

\* An onclose handler that reconnects by itself.
OnCloseReconnects(i) ==
    /\ isConnected' = FALSE
    /\ isRecording' = FALSE
    /\ IF nCalls < MaxConnects
       THEN /\ nCalls' = nCalls + 1
            /\ pc' = [pc EXCEPT ![nCalls + 1] = "awaitMic"]
       ELSE UNCHANGED <<nCalls, pc>>
    /\ UNCHANGED <<hasKey, closureSpeaking, stream, wsEstablished,
                   graph, toasts, wsRef, streamRef, audioContextRef,
                   processorRef, sourceRef, silenceTimeoutRef, timerPending,
                   speechSinceTimer, isSpeaking>>

\* ws.onclose
OnClose(i) ==
    /\ isConnected' = FALSE
    /\ isRecording' = FALSE
    /\ UNCHANGED <<hasKey, nCalls, pc, closureSpeaking, stream, wsEstablished,
                   graph, toasts, wsRef, streamRef, audioContextRef,
                   processorRef, sourceRef, silenceTimeoutRef, timerPending,
                   speechSinceTimer, isSpeaking>>

\* An established connection ends without an error event: the remote side
\* closes it, or the closing handshake started by close() completes.
WsClose(i) ==
    /\ ws[i] \in {"OPEN", "CLOSING"}
    /\ wsEstablished[i]
    /\ ws' = [ws EXCEPT ![i] = "CLOSED"]
    /\ OnClose(i)
    /\ ev' = NoEvent("close", i)
    /\ UNCHANGED <<routerVars, serverVars, auraVars>>
    /\ UNCHANGED stopped

\* The connection fails (it cannot be established, it is closed before it is
\* established, or it breaks): readyState becomes CLOSED, then the error event
\* and the close event are fired one after the other.  ws.onerror toasts and
\* calls disconnect(); ws.onclose then sets isConnected and isRecording to
\* false, which disconnect() has already done.
WsError(i) ==
    /\ ws[i] \in {"CONNECTING", "OPEN", "CLOSING"}
    /\ toasts' = [toasts EXCEPT ![i] = @ \cup {"Connection Error"}]
    /\ DisconnectBody([ws EXCEPT ![i] = "CLOSED"])
    /\ ev' = NoEvent("error", i)
    /\ UNCHANGED <<hasKey, nCalls, pc, closureSpeaking, wsEstablished>>
    /\ UNCHANGED <<routerVars, serverVars, auraVars>>
    /\ stopped' = TRUE

----------------------------------------------------------------------------
(* processor.onaudioprocess *)

FrameEvent(i, f, sent) == [op |-> "audio", a |-> i, frame |-> f, sent |-> sent]

\* A speech branch that leaves a pending silence timer alone.
SpeechBranchKeepsTimer(i, f) ==
    /\ UNCHANGED <<silenceTimeoutRef, timerPending>>
    /\ speechSinceTimer' = timerPending'
    /\ isSpeaking' = TRUE
    /\ ev' = FrameEvent(i, f, <<Buffer(PcmData(f))>>)

\* rms > SPEECH_THRESHOLD
SpeechBranch(i, f) ==
    /\ silenceTimeoutRef' = 0
    /\ timerPending' = IF silenceTimeoutRef # 0 THEN FALSE ELSE timerPending
    /\ speechSinceTimer' = timerPending'
    /\ isSpeaking' = TRUE
    /\ ev' = FrameEvent(i, f, <<Buffer(PcmData(f))>>)

\* rms <= SPEECH_THRESHOLD; isSpeaking is the closure's constant
SilenceBranch(i, f) ==
    /\ IF silenceTimeoutRef = 0 /\ closureSpeaking[i]
       THEN /\ silenceTimeoutRef' = 1
            /\ timerPending' = TRUE
            /\ speechSinceTimer' = FALSE
       ELSE UNCHANGED <<silenceTimeoutRef, timerPending, speechSinceTimer>>
    /\ UNCHANGED isSpeaking
    /\ ev' = FrameEvent(i, f, <<>>)

OnAudioProcess(i, f) ==
    \/ /\ ws[i] = "OPEN"
       /\ IsSpeechDetected(f)
       /\ SpeechBranch(i, f)
    \/ /\ ws[i] = "OPEN"
       /\ ~IsSpeechDetected(f)
       /\ SilenceBranch(i, f)
    \/ /\ ws[i] # "OPEN"
       /\ ev' = FrameEvent(i, f, <<>>)
       /\ UNCHANGED <<silenceTimeoutRef, timerPending, speechSinceTimer, isSpeaking>>

\* The audio thread hands a frame to the processor of a running graph.  A
\* stream whose tracks were stopped delivers silence.
AudioFrame(i, f) ==
    /\ graph[i] = "running"
    /\ stream[i] # "live" => f = SilentFrame
    /\ OnAudioProcess(i, f)
    /\ UNCHANGED <<hasKey, nCalls, pc, closureSpeaking, stream, ws,
                   wsEstablished, graph, toasts, wsRef, streamRef,
                   audioContextRef, processorRef, sourceRef, isConnected,
                   isRecording>>
    /\ UNCHANGED <<routerVars, serverVars, auraVars>>
    /\ UNCHANGED stopped

\* The callback given to setTimeout at line 225 runs.
SilenceTimeout ==
    /\ timerPending
    /\ isSpeaking' = FALSE
    /\ silenceTimeoutRef' = 0
    /\ timerPending' = FALSE
    /\ speechSinceTimer' = speechSinceTimer
    /\ ev' = NoEvent("timeout", 0)
    /\ UNCHANGED <<hasKey, nCalls, pc, closureSpeaking, stream, ws,
                   wsEstablished, graph, toasts, wsRef, streamRef,
                   audioContextRef, processorRef, sourceRef, isConnected,
                   isRecording>>
    /\ UNCHANGED <<routerVars, serverVars, auraVars>>
    /\ UNCHANGED stopped

----------------------------------------------------------------------------
(* ws.onmessage, handleTranscript and analyzeSentiment *)

\* data.is_final === true
IsFinal(m) == m.is_final = "true"

\* A delivery test that looks only for a transcript other than "".
ShouldDeliverUntrimmed(m) == m.alt /\ m.transcript # TextEmpty

\* data.channel?.alternatives?.[0], then transcript && transcript.trim()
ShouldDeliver(m) ==
    m.alt /\ m.transcript # TextEmpty /\ Trim(m.transcript) # TextEmpty

\* The TranscriptEntry of message m, the n-th to arrive; Date.now() is
\* recorded as the arrival number.
Entry(m, n) == [text |-> m.transcript, timestamp |-> n, isFinal |-> IsFinal(m)]

\* A call of analyzeSentiment that abandons the calls still outstanding.
IssueRequestCancelsOutstanding(text) ==
    /\ isAnalyzing' = TRUE
    /\ nRequests' = nRequests + 1
    /\ inflight' = {[id |-> nRequests + 1, text |-> text]}

\* analyzeSentiment up to its await: one more call of invoke is outstanding.
IssueRequest(text) ==
    /\ isAnalyzing' = TRUE
    /\ nRequests' = nRequests + 1
    /\ inflight' = inflight \cup {[id |-> nRequests + 1, text |-> text]}

\* A final branch that leaves the interim slot as it is.
FinalBranchKeepsInterim(e) ==
    /\ transcripts' = Append(transcripts, e)
    /\ IssueRequest(e.text)
    /\ UNCHANGED interimTranscript

\* if (transcript.isFinal) { ... } up to the await
FinalBranch(e) ==
    /\ transcripts' = Append(transcripts, e)
    /\ interimTranscript' = TextEmpty
    /\ IssueRequest(e.text)

\* An interim branch that also sends the text for analysis.
InterimBranchAnalyzes(e) ==
    /\ interimTranscript' = e.text
    /\ IssueRequest(e.text)
    /\ UNCHANGED transcripts

\* else { setInterimTranscript(transcript.text) }
InterimBranch(e) ==
    /\ interimTranscript' = e.text
    /\ UNCHANGED <<transcripts, isAnalyzing, nRequests, inflight>>

HandleTranscript(e) == IF e.isFinal THEN FinalBranch(e) ELSE InterimBranch(e)

\* ws.onmessage of the socket of attempt i, given the parsed message m
WsMessage(i, m) ==
    /\ ws[i] \in {"OPEN", "CLOSING"}
    /\ wsEstablished[i]
    /\ Len(received) < MaxMessages
    /\ received' = Append(received, m)
    /\ IF ShouldDeliver(m)
       THEN LET e == Entry(m, Len(received) + 1)
            IN  /\ calls' = Append(calls, e)
                /\ HandleTranscript(e)
       ELSE UNCHANGED <<calls, transcripts, interimTranscript, isAnalyzing,
                        nRequests, inflight>>
    /\ UNCHANGED <<sentimentScore, sentimentLabel, mood, keywords, settled,
                   analysisToasts>>
    /\ ev' = NoEvent("message", i)
    /\ UNCHANGED <<hookVars, serverVars, auraVars>>

\* A return value that is null when invoke fails.
SettledResultNullOnError(text, o) ==
    IF o.error THEN <<>> ELSE o.data

\* What analyzeSentiment(text) returns when invoke settles with o; null is <<>>.
SettledResult(text, o) ==
    IF o.error THEN <<FallbackResult(text)>> ELSE o.data

\* prev.includes(kw)
Includes(prev, kw) == \E k \in 1..Len(prev) : prev[k] = kw

\* A merge that puts the new keywords first.
MergeKeywordsNewFirst(prev, kws) ==
    SelectSeq(kws, LAMBDA kw : ~Includes(prev, kw)) \o prev

\* [...prev, ...result.keywords.filter((kw) => !prev.includes(kw))]
MergeKeywords(prev, kws) ==
    prev \o SelectSeq(kws, LAMBDA kw : ~Includes(prev, kw))

\* An application that drops the result of any call but the latest issued.
ApplyResultIfLatest(q, r) ==
    IF q.id = nRequests
    THEN /\ sentimentScore' = r.sentiment_score
         /\ sentimentLabel' = r.sentiment_label
         /\ mood' = r.mood
         /\ keywords' = MergeKeywords(keywords, r.keywords)
    ELSE UNCHANGED <<sentimentScore, sentimentLabel, mood, keywords>>

\* An application that takes the score and the keywords of a result and
\* leaves label and mood as they are.
ApplyResultScoreOnly(q, r) ==
    /\ sentimentScore' = r.sentiment_score
    /\ keywords' = MergeKeywords(keywords, r.keywords)
    /\ UNCHANGED <<sentimentLabel, mood>>

\* An application that drops a result that comes after disconnect().
ApplyResultUnlessStopped(q, r) ==
    IF stopped
    THEN UNCHANGED <<sentimentScore, sentimentLabel, mood, keywords>>
    ELSE /\ sentimentScore' = r.sentiment_score
         /\ sentimentLabel' = r.sentiment_label
         /\ mood' = r.mood
         /\ keywords' = MergeKeywords(keywords, r.keywords)

\* The body of if (result) { ... } for the call q that returned r
ApplyResult(q, r) ==
    /\ sentimentScore' = r.sentiment_score
    /\ sentimentLabel' = r.sentiment_label
    /\ mood' = r.mood
    /\ keywords' = MergeKeywords(keywords, r.keywords)

\* Every call of analyzeSentiment follows a message.
RequestIds == 1..MaxMessages

\* invoke of the outstanding call q settles with o: analyzeSentiment runs from
\* its await to its return, and handleTranscript from its await to its end.
Settles(q, o) ==
    /\ inflight' = inflight \ {q}
    /\ analysisToasts' = IF o.error THEN analysisToasts + 1 ELSE analysisToasts
    /\ isAnalyzing' = FALSE
    /\ LET res == SettledResult(q.text, o)
       IN  /\ settled' = Append(settled, [id |-> q.id, text |-> q.text,
                                          error |-> o.error, result |-> res])
           /\ IF res # <<>>
              THEN ApplyResult(q, res[1])
              ELSE UNCHANGED <<sentimentScore, sentimentLabel, mood, keywords>>
    /\ UNCHANGED <<received, calls, transcripts, interimTranscript, nRequests>>
    /\ ev' = NoEvent("settled", q.id)
    /\ UNCHANGED <<hookVars, serverVars, auraVars>>

\* The n-th call of analyzeSentiment is outstanding and settles with o.
SentimentSettles(n, o) ==
    \E q \in inflight : q.id = n /\ Settles(q, o)

----------------------------------------------------------------------------
(* The analyze-sentiment function: serve handler *)

\* The catch block: the fallback, with status 200.
CatchFallback ==
    Response(200, FALSE,
             SentimentData(NEUTRAL_SCORE, "neutral", "undetermined",
                           ServerFallbackKeywords(reqBody)))

\* The Response built in the branches for 429 and 402.
LimitResponse(status) ==
    Response(status, TRUE,
             SentimentData(NEUTRAL_SCORE, "neutral", "undetermined",
                           FallbackKeywords(reqBody.s)))

\* A handler that asks the gateway before it looks for the key.
ValidateThenFetchWithoutKey ==
    IF ~IsUsableText(reqBody)
    THEN /\ srvPc' = "done"
         /\ response' = <<CatchFallback>>
         /\ UNCHANGED fetches
    ELSE /\ srvPc' = "awaitFetch"
         /\ fetches' = fetches + 1
         /\ UNCHANGED response

\* From await req.json() to the fetch: the two validations.
ValidateThenFetch ==
    IF ~IsUsableText(reqBody) \/ ~apiKeySet
    THEN /\ srvPc' = "done"
         /\ response' = <<CatchFallback>>
         /\ UNCHANGED fetches
    ELSE /\ srvPc' = "awaitFetch"
         /\ fetches' = fetches + 1
         /\ UNCHANGED response

\* The handler runs up to its first await of the gateway, or to its end.
ServeRequest ==
    /\ srvPc = "received"
    /\ ValidateThenFetch
    /\ UNCHANGED <<reqBody, apiKeySet, gateway, clientReturn>>
    /\ UNCHANGED <<ev, hookVars, routerVars, auraVars>>

\* The Response for what the fetch came to.
ResponseFor(u) ==
    IF u.kind = "notOk" /\ u.status \in {429, 402} THEN LimitResponse(u.status)
    ELSE IF u.kind = "result" THEN Response(200, FALSE, u.result)
    ELSE CatchFallback

\* The fetch settles with u and the handler runs to its end.
GatewayResponds(u) ==
    /\ srvPc = "awaitFetch"
    /\ srvPc' = "done"
    /\ gateway' = <<u>>
    /\ response' = <<ResponseFor(u)>>
    /\ UNCHANGED <<reqBody, apiKeySet, fetches, clientReturn>>
    /\ UNCHANGED <<ev, hookVars, routerVars, auraVars>>

\* invoke is rejected for the call that sent reqBody: the catch block of
\* analyzeSentiment.
InvokeRejected ==
    /\ srvPc # "idle"
    /\ reqBody.kind = "string"
    /\ clientReturn = <<>>
    /\ clientReturn' = <<FallbackResult(reqBody.s)>>
    /\ UNCHANGED <<reqBody, apiKeySet, srvPc, fetches, gateway, response>>
    /\ UNCHANGED <<ev, hookVars, routerVars, auraVars>>

----------------------------------------------------------------------------
(* AuraCanvas *)

\* useEffect(() => { sentimentRef.current = {...} }, [score, label, keywords])
\* runs after a render with new props.
SyncSentimentRef ==
    /\ sentimentRef # AuraProps
    /\ sentimentRef' = AuraProps
    /\ ev' = NoEvent("effect", 0)
    /\ UNCHANGED <<lastLabel, lastKeywordCount, target, frameScore>>
    /\ UNCHANGED <<hookVars, routerVars, serverVars>>

\* p.draw: the change detection and updateVisualization().  The current
\* values follow the targets by interpolation and are left out.
Draw ==
    /\ LET currentLabel == sentimentRef.label
           currentKeywordCount == Len(sentimentRef.keywords)
       IN  IF currentLabel # lastLabel \/ currentKeywordCount # lastKeywordCount
           THEN /\ target' = UpdateVisualization(currentLabel, currentKeywordCount)
                /\ lastLabel' = currentLabel
                /\ lastKeywordCount' = currentKeywordCount
           ELSE UNCHANGED <<target, lastLabel, lastKeywordCount>>
    /\ frameScore' = sentimentRef.score
    /\ ev' = NoEvent("draw", 0)
    /\ UNCHANGED sentimentRef
    /\ UNCHANGED <<hookVars, routerVars, serverVars>>

----------------------------------------------------------------------------

Next ==
    \/ Connect
    \/ Disconnect
    \/ \E i \in Attempts : MicDenied(i)
    \/ \E i \in Attempts : MicGranted(i)
    \/ \E i \in Attempts : WsOpen(i)
    \/ \E i \in Attempts : WsClose(i)
    \/ \E i \in Attempts : WsError(i)
    \/ \E i \in Attempts, f \in GateFrames : AudioFrame(i, f)
    \/ SilenceTimeout

Spec == Init /\ [][Next]_vars

----------------------------------------------------------------------------
(* One recording session fed with every frame of Frames.  It starts in the *)
(* state that connect(), the microphone grant and the socket's open event  *)
(* lead to, and runs until the session ends.                               *)

InitFrames ==
    /\ hasKey = TRUE
    /\ nCalls = 1
    /\ pc = [i \in Attempts |-> IF i = 1 THEN "wired" ELSE "notCalled"]
    /\ closureSpeaking = [i \in Attempts |-> FALSE]
    /\ stream = [i \in Attempts |-> IF i = 1 THEN "live" ELSE "none"]
    /\ ws = [i \in Attempts |-> IF i = 1 THEN "OPEN" ELSE "none"]
    /\ wsEstablished = [i \in Attempts |-> i = 1]
    /\ graph = [i \in Attempts |-> IF i = 1 THEN "running" ELSE "none"]
    /\ toasts = [i \in Attempts |-> {}]
    /\ wsRef = 1
    /\ streamRef = 1
    /\ audioContextRef = 1
    /\ processorRef = 1
    /\ sourceRef = 1
    /\ silenceTimeoutRef = 0
    /\ timerPending = FALSE
    /\ speechSinceTimer = FALSE
    /\ isConnected = TRUE
    /\ isRecording = TRUE
    /\ isSpeaking = FALSE
    /\ ev = NoEvent("open", 1)
    /\ stopped = FALSE
    /\ RouterInit
    /\ ServerIdle
    /\ AuraInit

NextFrames ==
    \/ \E f \in Frames : AudioFrame(1, f)
    \/ WsClose(1)
    \/ WsError(1)
    \/ Disconnect

SpecFrames == InitFrames /\ [][NextFrames]_vars

----------------------------------------------------------------------------
(* One session that is open, with the page that receives its transcripts *)

RouterFrames == {Steady(Unit \div 2)}

NextRouter ==
    \/ \E i \in Attempts, m \in Messages : WsMessage(i, m)
    \/ \E n \in RequestIds, o \in Outcomes : SentimentSettles(n, o)
    \/ \E i \in Attempts, f \in RouterFrames : AudioFrame(i, f)
    \/ Disconnect
    \/ \E i \in Attempts : WsClose(i)

SpecRouter == InitFrames /\ [][NextRouter]_vars

----------------------------------------------------------------------------
(* Sessions that follow one another, with the page that outlives them *)

SessionMessages ==
    {Message(TRUE, TextHappy, "true"), Message(TRUE, TextShort, "false")}

SessionOutcomes ==
    { [error |-> FALSE, data |-> <<ResultSad>>],
      [error |-> TRUE, data |-> <<>>] }

NextSession ==
    \/ \E i \in Attempts, m \in SessionMessages : WsMessage(i, m)
    \/ \E n \in RequestIds, o \in SessionOutcomes : SentimentSettles(n, o)
    \/ Disconnect
    \/ Connect
    \/ \E i \in Attempts : MicGranted(i)
    \/ \E i \in Attempts : WsOpen(i)

SpecSession == InitFrames /\ [][NextSession]_vars

----------------------------------------------------------------------------
(* One request to the analyze-sentiment function *)

InitServer ==
    /\ HookInit
    /\ RouterInit
    /\ AuraInit
    /\ reqBody \in Bodies
    /\ apiKeySet \in BOOLEAN
    /\ srvPc = "received"
    /\ fetches = 0
    /\ gateway = <<>>
    /\ response = <<>>
    /\ clientReturn = <<>>

NextServer ==
    \/ ServeRequest
    \/ \E u \in Upstreams : GatewayResponds(u)
    \/ InvokeRejected

SpecServer == InitServer /\ [][NextServer]_vars

----------------------------------------------------------------------------
(* The page with its aura *)

\* A result with the label and the keywords of ResultHappy and another score.
ResultGlad ==
    SentimentData((70 * ScoreUnit) \div 100, "positive", "glad",
                  <<wHappy, wToday, wGreat>>)

AuraOutcomes ==
    {[error |-> FALSE, data |-> <<r>>] : r \in {ResultHappy, ResultGlad, ResultSad}}

NextAura ==
    \/ \E i \in Attempts : WsMessage(i, Message(TRUE, TextHappy, "true"))
    \/ \E n \in RequestIds, o \in AuraOutcomes : SentimentSettles(n, o)
    \/ SyncSentimentRef
    \/ Draw

SpecAura == InitFrames /\ [][NextAura]_vars

----------------------------------------------------------------------------
(* Properties of the audio callback *)

\* The sum of squares of frame f against the speech threshold, written out
\* from the samples: rms(f) <= SPEECH_THRESHOLD.
RmsAtMostThreshold(f) ==
    SumSquares(f) <= (Unit \div 100) * (Unit \div 100) * Len(f)

\* The k-th 16-bit sample of a sent buffer, read low byte first.
Int16At(b, k) ==
    LET u == b[2 * k - 1] + 256 * b[2 * k]
    IN  IF u >= 32768 THEN u - 65536 ELSE u

\* v is the sample x (in 1/Unit) clamped to [-1, 1], scaled by 0x8000 when
\* negative and by 0x7fff otherwise, and truncated towards zero.
IsPcmOf(v, x) ==
    \/ x >= Unit /\ v = 32767
    \/ x <= -Unit /\ v = -32768
    \/ /\ 0 <= x /\ x < Unit
       /\ v >= 0
       /\ v * Unit <= x * 32767
       /\ x * 32767 < (v + 1) * Unit
    \/ /\ -Unit < x /\ x < 0
       /\ v <= 0
       /\ x * 32768 <= v * Unit
       /\ (v - 1) * Unit < x * 32768

\* C1: an audio frame whose rms is not greater than the speech threshold
\* sends nothing on the socket, whatever isSpeaking is and whether or not a
\* silence timer is pending.
C1_SilenceGate ==
    (ev.op = "audio" /\ RmsAtMostThreshold(ev.frame)) => ev.sent = <<>>

\* A frame exactly at the threshold was processed on an open socket while
\* the hook was speaking and a silence timer was pending.
C1_Witness ==
    /\ ev.op = "audio"
    /\ ev.frame = Steady(SPEECH_THRESHOLD)
    /\ ws[ev.a] = "OPEN"
    /\ isSpeaking
    /\ timerPending
    /\ ev.sent = <<>>

\* C2: once isSpeaking is true, a frame below the threshold that is
\* processed on an open socket while no silence timer is pending starts the
\* silence timer (whose expiry then sets isSpeaking to false).
C2_SilenceStartsTimer ==
    [][(/\ ev'.op = "audio"
        /\ ws[ev'.a] = "OPEN"
        /\ RmsAtMostThreshold(ev'.frame)
        /\ isSpeaking
        /\ ~timerPending) => timerPending']_vars

\* C3: apart from disconnect() (called by the user or by ws.onerror),
\* isSpeaking goes from true to false only when the silence timer fires; the
\* timer fires only if no speech frame was processed since it was set; a
\* speech frame processed while the timer is pending cancels it and leaves
\* isSpeaking true.
C3_Hysteresis ==
    [][/\ (isSpeaking /\ ~isSpeaking') =>
              \/ ev'.op \in {"disconnect", "error"}
              \/ ev'.op = "timeout" /\ timerPending /\ ~speechSinceTimer
       /\ (ev'.op = "timeout") => ~speechSinceTimer
       /\ (/\ ev'.op = "audio"
           /\ ws[ev'.a] = "OPEN"
           /\ ~RmsAtMostThreshold(ev'.frame)
           /\ timerPending) => (~timerPending' /\ silenceTimeoutRef' = 0 /\ isSpeaking')
      ]_vars

\* The silence timer has fired in a session that is still open.
C3_Witness ==
    /\ ev.op = "timeout"
    /\ ~isSpeaking
    /\ \E i \in Attempts : ws[i] = "OPEN" /\ graph[i] = "running"

\* C4: a frame with rms above the threshold sends exactly one buffer, of
\* twice as many bytes as the frame has samples, and each 16-bit sample in it
\* is the input sample clamped to [-1, 1], scaled and truncated, hence within
\* [-32768, 32767] without wrapping.
C4_PcmEncoding ==
    (ev.op = "audio" /\ ws[ev.a] = "OPEN" /\ ~RmsAtMostThreshold(ev.frame)) =>
        /\ Len(ev.sent) = 1
        /\ Len(ev.sent[1]) = 2 * Len(ev.frame)
        /\ \A k \in 1..Len(ev.frame) :
              /\ ev.sent[1][2 * k - 1] \in 0..255
              /\ ev.sent[1][2 * k] \in 0..255
              /\ Int16At(ev.sent[1], k) \in -32768..32767
              /\ IsPcmOf(Int16At(ev.sent[1], k), ev.frame[k])

\* A buffer was sent for a frame that holds both a sample above 1 and a
\* sample below -1, the two cases in which the clamp acts.
C4_Witness ==
    /\ ev.op = "audio"
    /\ Len(ev.sent) = 1
    /\ \E k \in 1..Len(ev.frame) : ev.frame[k] > Unit
    /\ \E k \in 1..Len(ev.frame) : ev.frame[k] < -Unit

----------------------------------------------------------------------------
(* Properties of connect() and of the socket events *)

\* C5: the socket of an attempt is created only once its microphone stream
\* is there; the audio graph is built and isRecording becomes true only in
\* the step in which a socket opens; no buffer is sent on, and no graph
\* exists for, a socket that has not signalled open.
C5_StartOrdering ==
    [][/\ \A i \in Attempts :
            /\ ws'[i] # "none" => stream'[i] # "none"
            /\ graph'[i] # "none" => wsEstablished'[i]
            /\ (graph[i] = "none" /\ graph'[i] # "none") =>
                   (ws[i] = "CONNECTING" /\ ws'[i] = "OPEN" /\ ev'.op = "open")
       /\ (~isRecording /\ isRecording') =>
              \E i \in Attempts : ws[i] = "CONNECTING" /\ ws'[i] = "OPEN"
       /\ ev'.sent # <<>> => (wsEstablished[ev'.a] /\ ws[ev'.a] = "OPEN")
      ]_vars

\* A buffer has been sent in a recording session.
C5_Witness ==
    /\ ev.op = "audio"
    /\ ev.sent # <<>>
    /\ isRecording
    /\ wsEstablished[ev.a]

\* Attempt i holds nothing: no live microphone track, no running audio graph,
\* no socket that is connecting or open, no pending microphone request.
HoldsNothing(i) ==
    /\ stream[i] # "live"
    /\ graph[i] # "running"
    /\ ws[i] \notin {"CONNECTING", "OPEN"}
    /\ pc[i] # "awaitMic"

FlagsIdle == ~isConnected /\ ~isRecording /\ ~isSpeaking

\* C6: when a connect attempt fails (microphone rejected, new WebSocket
\* throws, or the socket raises an error event) and no other attempt holds
\* anything, the hook is left clean: no live track, no audio graph, no open
\* socket, and isConnected, isRecording and isSpeaking all false.
C6_CleanFailure ==
    (/\ ev.op \in {"connectRejected", "error"}
     /\ \A j \in Attempts \ {ev.a} : HoldsNothing(j))
        => (HoldsNothing(ev.a) /\ FlagsIdle)

\* C7: a microphone failure is toasted as "Microphone Error" only, a failure
\* of the streaming connection (new WebSocket throwing, or an error event) as
\* "Connection Error" and never as "Microphone Error", and a missing key under
\* neither of these two titles.
C7_ErrorClassification ==
    \A i \in Attempts :
        /\ pc[i] = "micError" => toasts[i] = {"Microphone Error"}
        /\ pc[i] = "socketError" =>
               ("Connection Error" \in toasts[i] /\ "Microphone Error" \notin toasts[i])
        /\ (pc[i] = "wired" /\ toasts[i] # {}) => toasts[i] = {"Connection Error"}
        /\ pc[i] = "configError" =>
               toasts[i] \cap {"Microphone Error", "Connection Error"} = {}

\* The idle state disconnect() is to restore.
Idle ==
    /\ silenceTimeoutRef = 0 /\ ~timerPending
    /\ wsRef = 0 /\ streamRef = 0
    /\ audioContextRef = 0 /\ processorRef = 0 /\ sourceRef = 0
    /\ \A i \in Attempts :
          /\ stream[i] # "live"
          /\ graph[i] # "running"
          /\ ws[i] \notin {"CONNECTING", "OPEN"}
    /\ FlagsIdle

\* C8: in whatever state disconnect() is called, it leaves the silence timer
\* cleared, the audio graph released, the microphone tracks stopped, the
\* socket closed or closing, and isConnected, isRecording, isSpeaking false.
C8_DisconnectRestoresIdle ==
    ev.op = "disconnect" => Idle

\* C9: when the remote side closes an open socket, the hook is back to idle:
\* the three flags false, no silence timer pending, the audio graph and the
\* microphone tracks of that session released.
C9_RemoteCloseIdle ==
    [][(ev'.op = "close" /\ ws[ev'.a] = "OPEN") =>
           /\ FlagsIdle'
           /\ ~timerPending'
           /\ graph'[ev'.a] # "running"
           /\ stream'[ev'.a] # "live"]_vars

----------------------------------------------------------------------------
(* Transcript router *)

\* Message m carries a first alternative whose transcript has a character
\* other than white space.
HasSpokenText(m) ==
    m.alt /\ \E k \in 1..Len(m.transcript) : m.transcript[k] # " "

\* The calls that the messages msgs account for, the first of them being the
\* n-th message to arrive.
RECURSIVE Delivered(_, _)
Delivered(msgs, n) ==
    IF msgs = <<>> THEN <<>>
    ELSE LET m == Head(msgs)
             call == [text |-> m.transcript, timestamp |-> n,
                      isFinal |-> (m.is_final = "true")]
         IN  (IF HasSpokenText(m) THEN <<call>> ELSE <<>>)
                 \o Delivered(Tail(msgs), n + 1)

\* C11: the calls of the transcript callback are, in arrival order, one call
\* for each message received that has a first alternative with non-empty
\* trimmed transcript, with the text and the finality of that message, and
\* no call for any other message.
C11_TranscriptDelivery == calls = Delivered(received, 1)

\* A message of white space only was dropped and a later one delivered.
C11_Witness ==
    /\ Len(received) = 2
    /\ received[1] = Message(TRUE, TextBlank, "false")
    /\ Len(calls) = 1
    /\ calls[1].timestamp = 2

LastCall == calls[Len(calls)]

\* The step is the delivery of one more transcript event to the page.
Delivers == ev'.op = "message" /\ Len(calls') = Len(calls) + 1

\* C12: a transcript event that is not final leaves the log unchanged, makes
\* the interim slot the event's text, issues no sentiment request, and
\* leaves score, label, mood and keywords unchanged.
C12_InterimHandling ==
    [][ (Delivers /\ ~LastCall'.isFinal) =>
            /\ transcripts' = transcripts
            /\ interimTranscript' = LastCall'.text
            /\ nRequests' = nRequests
            /\ inflight' = inflight
            /\ UNCHANGED <<sentimentScore, sentimentLabel, mood, keywords>>
      ]_vars

\* An interim event has just been delivered after a final one.
C12_Witness ==
    /\ ev.op = "message"
    /\ Len(calls) = 2
    /\ calls[1].isFinal
    /\ ~calls[2].isFinal
    /\ interimTranscript = calls[2].text
    /\ Len(transcripts) = 1

IsFinalEntry(e) == e.isFinal

\* C13: a final transcript event is appended at the end of the log, clears
\* the interim slot and issues exactly one sentiment request, with its text;
\* so the log is the final events in delivery order, and as many requests
\* were issued as final events were delivered.
C13_FinalHandling ==
    /\ [](/\ transcripts = SelectSeq(calls, IsFinalEntry)
          /\ nRequests = Len(transcripts))
    /\ [][ (Delivers /\ LastCall'.isFinal) =>
               /\ transcripts' = Append(transcripts, LastCall')
               /\ interimTranscript' = TextEmpty
               /\ nRequests' = nRequests + 1
               /\ inflight \subseteq inflight'
               /\ \E q \in inflight' :
                      /\ q.text = LastCall'.text
                      /\ inflight' \ inflight = {q}
         ]_vars

\* A final event has just been delivered after an interim one.
C13_Witness ==
    /\ ev.op = "message"
    /\ Len(calls) = 2
    /\ ~calls[1].isFinal
    /\ calls[2].isFinal
    /\ interimTranscript = TextEmpty
    /\ transcripts = <<calls[2]>>
    /\ nRequests = 1

\* The socket of attempt i can deliver a message, and the model has room
\* to record it.
CanReceive(i) ==
    ws[i] = "OPEN" /\ wsEstablished[i] /\ Len(received) < MaxMessages

\* The graph of attempt i is running on a live stream.
CanCapture(i) == graph[i] = "running" /\ stream[i] = "live"

\* C14: while sentiment requests are outstanding, messages (interim and
\* final) and audio frames are processed as they come; a final event adds a
\* request and keeps every outstanding one, also one for the same text; a
\* response ends its own request and no other.
C14_NonBlockingSentiment ==
    /\ [](inflight # {} =>
              \A i \in Attempts :
                  /\ CanReceive(i) => \A m \in Messages : ENABLED WsMessage(i, m)
                  /\ CanCapture(i) =>
                         \A f \in RouterFrames : ENABLED AudioFrame(i, f))
    /\ [][ /\ ev'.op = "message" => inflight \subseteq inflight'
           /\ (Delivers /\ LastCall'.isFinal) =>
                  Cardinality(inflight') = Cardinality(inflight) + 1
           /\ ev'.op = "settled" =>
                  \E q \in inflight : q.id = ev'.a /\ inflight' = inflight \ {q}
           /\ ev'.op \notin {"message", "settled"} => inflight' = inflight
         ]_vars

\* Two requests for the same text were outstanding together; the second has
\* returned and the first is still outstanding.
C14_Witness ==
    /\ nRequests = 2
    /\ transcripts[1].text = transcripts[2].text
    /\ Len(settled) = 1
    /\ settled[1].id = 2
    /\ inflight = {[id |-> 1, text |-> transcripts[1].text]}

IsResult(x) == x.result # <<>>

\* The calls that returned a result, in the order they returned.
Returned == SelectSeq(settled, IsResult)

\* C15: the score, label and mood shown are those of the response that came
\* last, whatever the order in which the requests were issued.
C15_LastWriteWins ==
    Returned # <<>> =>
        LET r == Returned[Len(Returned)].result[1]
        IN  /\ sentimentScore = r.sentiment_score
            /\ sentimentLabel = r.sentiment_label
            /\ mood = r.mood

\* The second request returned before the first, with another result.
C15_Witness ==
    /\ Len(settled) = 2
    /\ settled[1].id = 2
    /\ settled[2].id = 1
    /\ IsResult(settled[1])
    /\ IsResult(settled[2])
    /\ settled[1].result[1].sentiment_score # settled[2].result[1].sentiment_score
    /\ sentimentScore = settled[2].result[1].sentiment_score

----------------------------------------------------------------------------
(* Sentiment failure *)

LastSettled == settled[Len(settled)]

\* The step is the return of a call of analyzeSentiment whose invoke failed.
Fails == ev'.op = "settled" /\ LastSettled'.error

IsPrefix(s, t) == Len(s) <= Len(t) /\ SubSeq(t, 1, Len(s)) = s

Range(s) == {s[k] : k \in 1..Len(s)}

\* C16 as stated: a failed sentiment call leaves score, label, mood and
\* keywords as they were, raises a notification and schedules no retry.
C16_FailureLeavesStateUnchanged ==
    [][ Fails =>
            /\ UNCHANGED <<sentimentScore, sentimentLabel, mood, keywords>>
            /\ analysisToasts' = analysisToasts + 1
            /\ nRequests' = nRequests
            /\ inflight' \subseteq inflight
      ]_vars

\* C16: a failed sentiment call raises one notification and applies the
\* fallback result: the score becomes 0.5, the label "neutral" and the mood
\* "undetermined"; the keywords accumulated stay in place and the fallback
\* keywords of the text, and nothing else, join them; no call is issued again.
C16_FailureAppliesFallback ==
    [][ Fails =>
            /\ sentimentScore' = NEUTRAL_SCORE
            /\ sentimentLabel' = "neutral"
            /\ mood' = "undetermined"
            /\ IsPrefix(keywords, keywords')
            /\ Range(keywords') =
                   Range(keywords) \cup Range(FallbackKeywords(LastSettled'.text))
            /\ analysisToasts' = analysisToasts + 1
            /\ nRequests' = nRequests
            /\ inflight' \subseteq inflight
      ]_vars

\* A call failed after another had returned the result of the service.
C16_Witness ==
    /\ ev.op = "settled"
    /\ Len(settled) = 2
    /\ settled[1].result = <<ResultHappy>>
    /\ settled[2].error
    /\ sentimentScore = NEUTRAL_SCORE
    /\ mood = "undetermined"
    /\ analysisToasts = 1

\* Word w stands in text between two spaces or ends of the text.
IsWordOf(w, text) ==
    \E a \in 1..(Len(text) + 1), b \in 0..Len(text) :
        /\ w = SubSeq(text, a, b)
        /\ a = 1 \/ text[a - 1] = " "
        /\ b = Len(text) \/ text[b + 1] = " "
        /\ \A k \in a..b : text[k] # " "

\* C17: when invoke is rejected, analyzeSentiment returns to its caller a
\* result with label "neutral", score 0.5 and a keyword list that is not
\* empty and holds words of the text longer than four characters.
C17_ClientFallbackResult ==
    [][ Fails =>
            /\ LastSettled'.result # <<>>
            /\ LET r == LastSettled'.result[1]
               IN  /\ r.sentiment_label = "neutral"
                   /\ r.sentiment_score = NEUTRAL_SCORE
                   /\ r.keywords # <<>>
                   /\ \A k \in 1..Len(r.keywords) :
                          /\ Len(r.keywords[k]) > LONG_WORD
                          /\ IsWordOf(r.keywords[k], LastSettled'.text)
      ]_vars

----------------------------------------------------------------------------
(* Keyword accumulator *)

\* The number of places of s that hold x.
Count(s, x) == Cardinality({k \in 1..Len(s) : s[k] = x})

\* C18: a keyword returned by the results of two different final
\* transcripts is in the accumulated list exactly once, whichever of the
\* two responses came first.
C18_MergeIdempotent ==
    \A a, b \in 1..Len(settled) :
        (a # b /\ IsResult(settled[a]) /\ IsResult(settled[b])) =>
            \A w \in Range(settled[a].result[1].keywords)
                         \cap Range(settled[b].result[1].keywords) :
                Count(keywords, w) = 1

\* C19: the accumulated list holds no keyword twice.
C19_NoDuplicateKeywords ==
    \A a, b \in 1..Len(keywords) : a # b => keywords[a] # keywords[b]

\* C20: no step removes or moves a keyword already accumulated: the list
\* before a step is a prefix of the list after it.
C20_KeywordsMonotonic == [][IsPrefix(keywords, keywords')]_vars

\* After a reconnect, a response has added keywords behind those that an
\* earlier response had left.
C20_Witness ==
    /\ nCalls = 2
    /\ ws[2] = "OPEN"
    /\ ev.op = "settled"
    /\ Len(settled) = 2
    /\ settled[1].result = <<ResultSad>>
    /\ settled[2].error
    /\ keywords = <<wToday, wRainy, wHappy, wHappy>>

----------------------------------------------------------------------------
(* The analyze-sentiment function *)

\* The request met one of the error classes the function provides for.
ExpectedError ==
    \/ ~IsUsableText(reqBody)
    \/ ~apiKeySet
    \/ gateway # <<>> /\ gateway[1].kind # "result"

IsFallbackBody(b) ==
    /\ b.sentiment_score = NEUTRAL_SCORE
    /\ b.sentiment_label = "neutral"
    /\ b.mood = "undetermined"

\* C21: for every expected error class the function answers with status 200
\* and the fallback body, never with a failure status.
C21_AlwaysDegradesTo200 ==
    (response # <<>> /\ ExpectedError) =>
        /\ response[1].status = 200
        /\ IsFallbackBody(response[1].body)

----------------------------------------------------------------------------
(* Configuration, sessions and disconnect *)

\* Nothing was ever acquired: no microphone request is pending or granted,
\* no socket and no audio graph was created.
NothingAcquired ==
    \A i \in Attempts :
        /\ pc[i] \in {"notCalled", "configError"}
        /\ stream[i] = "none"
        /\ ws[i] = "none"
        /\ graph[i] = "none"

\* C22: without the transcription key, connect() fails before it requests
\* the microphone and before it creates a socket, raises a "Configuration
\* Error" notification and leaves the hook idle.
C22_EagerConfigCheck ==
    /\ [](~hasKey => (NothingAcquired /\ Idle))
    /\ [][ (~hasKey /\ nCalls' = nCalls + 1) =>
               /\ pc'[nCalls'] = "configError"
               /\ "Configuration Error" \in toasts'[nCalls']
               /\ ev'.op = "connectRejected"
         ]_vars

\* connect() was called twice without the key and rejected twice.
C22_Witness ==
    /\ ~hasKey
    /\ nCalls = 2
    /\ ev = NoEvent("connectRejected", 2)
    /\ "Configuration Error" \in toasts[1] \cap toasts[2]

\* A call of analyzeSentiment returns after disconnect().
SettlesStopped == stopped /\ ev'.op = "settled"

\* C23 as stated: a sentiment request in flight at disconnect() completes
\* and its result is discarded: score, label, mood and keywords stay.
C23_ResultDiscardedAfterDisconnect ==
    [][ SettlesStopped =>
            /\ inflight' \subseteq inflight /\ inflight' # inflight
            /\ UNCHANGED <<sentimentScore, sentimentLabel, mood, keywords>>
      ]_vars

\* C23: disconnect() closes the socket and stops the capture that the hook
\* holds and leaves the sentiment requests in flight; a request that
\* completes afterwards has its result applied: score, label and mood are set
\* from it and its keywords are in the accumulated list.
C23_ResultAppliedAfterDisconnect ==
    [][ /\ ev'.op = "disconnect" =>
               /\ inflight' = inflight
               /\ UNCHANGED <<sentimentScore, sentimentLabel, mood, keywords>>
               /\ \A i \in Attempts :
                      /\ i = wsRef => ws'[i] \notin {"CONNECTING", "OPEN"}
                      /\ i = streamRef => stream'[i] # "live"
                      /\ i = processorRef => graph'[i] # "running"
        /\ SettlesStopped =>
               /\ inflight' \subseteq inflight /\ inflight' # inflight
               /\ IsResult(LastSettled') =>
                      LET r == LastSettled'.result[1]
                      IN  /\ sentimentScore' = r.sentiment_score
                          /\ sentimentLabel' = r.sentiment_label
                          /\ mood' = r.mood
                          /\ Range(r.keywords) \subseteq Range(keywords')
      ]_vars

\* After disconnect(), with the socket closed, the one request has returned
\* the result of the service and the page shows it.
C23_Witness ==
    /\ stopped
    /\ ev.op = "settled"
    /\ nRequests = 1
    /\ settled[1].result = <<ResultHappy>>
    /\ sentimentScore = ResultHappy.sentiment_score
    /\ mood = "happy"
    /\ Idle

----------------------------------------------------------------------------
(* Aura *)

\* The step draws a frame for which the score has changed since the last
\* frame, and the label and the number of keywords have not.
DrawsNewScoreOnly ==
    /\ ev'.op = "draw"
    /\ sentimentRef.score # frameScore
    /\ sentimentRef.label = lastLabel
    /\ Len(sentimentRef.keywords) = lastKeywordCount

\* C24: a sentiment result that changes only the score changes the target
\* energy or the target flow speed of the aura.
C24_AuraReactsToScore ==
    [][ DrawsNewScoreOnly =>
            (target'.energy # target.energy \/ target'.flowSpeed # target.flowSpeed)
      ]_vars

----------------------------------------------------------------------------
(* Fallback keywords *)

\* The words of text from character k on, in order, given the word cur that
\* is being read and the words acc read so far; a space ends a word.
RECURSIVE WordsFrom(_, _, _, _)
WordsFrom(text, k, cur, acc) ==
    IF k > Len(text) THEN Append(acc, cur)
    ELSE IF text[k] = " " THEN WordsFrom(text, k + 1, <<>>, Append(acc, cur))
    ELSE WordsFrom(text, k + 1, Append(cur, text[k]), acc)

\* The first three words of text that have more than four characters.
RECURSIVE FirstLongWords(_, _)
FirstLongWords(words, n) ==
    IF n = 0 \/ words = <<>> THEN <<>>
    ELSE IF Len(Head(words)) > LONG_WORD
         THEN <<Head(words)>> \o FirstLongWords(Tail(words), n - 1)
         ELSE FirstLongWords(Tail(words), n)

ExpectedKeywords(text) ==
    FirstLongWords(WordsFrom(text, 1, <<>>, <<>>), MAX_FALLBACK_KEYWORDS)

\* C25: the fallback keywords computed by the client, and by the branches
\* of the function for 429 and 402, are the first three space-separated
\* words of the text longer than four characters, in their order, repeats
\* included; so there are at most three.
C25_FallbackKeywordHeuristic ==
    /\ clientReturn # <<>> =>
           /\ clientReturn[1].keywords = ExpectedKeywords(reqBody.s)
           /\ Len(clientReturn[1].keywords) <= MAX_FALLBACK_KEYWORDS
    /\ (response # <<>> /\ response[1].hasError) =>
           /\ response[1].body.keywords = ExpectedKeywords(reqBody.s)
           /\ Len(response[1].body.keywords) <= MAX_FALLBACK_KEYWORDS

\* The client fallback for a text of four long words, the first of them
\* twice: the fourth is left out and the repeat is kept.
C25_Witness ==
    /\ reqBody = Body("string", Join(<<wHappy, wHappy, wToday, wToday>>))
    /\ clientReturn # <<>>
    /\ clientReturn[1].keywords = <<wHappy, wHappy, wToday>>

\* The text of the request is missing, empty or not a string.
InvalidText == reqBody.kind # "string" \/ Len(reqBody.s) = 0

\* C26: when the text is missing, empty or not a string, or the gateway key
\* is not configured, the function makes no request to the gateway and
\* answers 200 with the neutral fallback, whose keywords are the long words
\* of the text, or "analysis" and "error" when there are none.
C26_ServerValidation ==
    (srvPc # "idle" /\ (InvalidText \/ ~apiKeySet)) =>
        /\ fetches = 0
        /\ gateway = <<>>
        /\ srvPc = "done" =>
               /\ response # <<>>
               /\ response[1].status = 200
               /\ IsFallbackBody(response[1].body)
               /\ response[1].body.keywords # <<>>
               /\ response[1].body.keywords =
                      IF InvalidText \/ ExpectedKeywords(reqBody.s) = <<>>
                      THEN <<wAnalysis, wError>>
                      ELSE ExpectedKeywords(reqBody.s)

\* Without the key, a text with no long word was answered with the default
\* keywords.
C26_Witness ==
    /\ ~apiKeySet
    /\ reqBody = Body("string", Join(<<wGood, wGood>>))
    /\ srvPc = "done"
    /\ fetches = 0
    /\ response[1].body.keywords = <<wAnalysis, wError>>

----------------------------------------------------------------------------
(* Sessions *)

LiveStreams == {i \in Attempts : stream[i] = "live"}

RunningGraphs == {i \in Attempts : graph[i] = "running"}

LiveSockets == {i \in Attempts : ws[i] \in {"CONNECTING", "OPEN"}}

\* C27: at most one microphone stream, one audio graph and one socket are
\* live at a time, and each live one is the one the refs of the hook hold.
C27_SingleLiveSession ==
    /\ Cardinality(LiveStreams) <= 1
    /\ Cardinality(RunningGraphs) <= 1
    /\ Cardinality(LiveSockets) <= 1
    /\ \A i \in LiveStreams : streamRef = i
    /\ \A i \in RunningGraphs :
           audioContextRef = i /\ processorRef = i /\ sourceRef = i
    /\ \A i \in LiveSockets : wsRef = i

\* C28: once disconnect() has returned, and as long as connect() is not
\* called again, no step acquires a microphone stream, opens a socket or
\* sends an audio frame, and isConnected, isRecording and isSpeaking stay
\* false.
C28_DisconnectIsFinal ==
    [][ (stopped /\ stopped') =>
            /\ LiveStreams' \subseteq LiveStreams
            /\ LiveSockets' \subseteq LiveSockets
            /\ ev'.sent = <<>>
            /\ FlagsIdle'
      ]_vars

----------------------------------------------------------------------------
(* Sentiment state *)

\* C29: isAnalyzing is true exactly when a sentiment request is in flight.
C29_AnalyzingTracksRequests == isAnalyzing <=> inflight # {}

\* A result the service or the fallback has returned is shown: score, label
\* and mood are its own.
ShowsResult(x) ==
    /\ IsResult(x)
    /\ sentimentScore = x.result[1].sentiment_score
    /\ sentimentLabel = x.result[1].sentiment_label
    /\ mood = x.result[1].mood

\* C30: score, label and mood are the initial values, or all three are those
\* of one and the same result that was returned; and every keyword of a
\* result that was applied is in the accumulated list.
C30_AtomicApplication ==
    /\ \/ /\ sentimentScore = NEUTRAL_SCORE
          /\ sentimentLabel = "neutral"
          /\ mood = "neutral"
       \/ \E k \in 1..Len(settled) : ShowsResult(settled[k])
    /\ \A k \in 1..Len(settled) :
           IsResult(settled[k]) =>
               Range(settled[k].result[1].keywords) \subseteq Range(keywords)

\* Two overlapping requests have returned different results, the later
\* issued first; the page shows the one that came last, whole.
C30_Witness ==
    /\ Len(settled) = 2
    /\ settled[1].id = 2
    /\ settled[1].result = <<ResultSad>>
    /\ settled[2].result = <<ResultHappy>>
    /\ ShowsResult(settled[2])
    /\ keywords = <<wToday, wRainy, wHappy, wGreat>>

============================================================================
